---- MODULE Spec2Model ----
(***************************************************************************)
(* The three netcheck probe scripts (scripts/example_ping.py,              *)
(* scripts/http_check.py, scripts/tcp_port_check.py) as one state machine. *)
(* One behaviour is one process run: Init picks the script, its argument   *)
(* vector and the platform; the actions are the steps of main(), split at  *)
(* the calls that block on the outside world (socket(), connect_ex(),      *)
(* urlopen() and each request it issues, subprocess.run()).  What the      *)
(* outside world answers is drawn with \E from the outcomes the CPython    *)
(* library calls can produce.                                              *)
(*                                                                         *)
(* Strings are sequences of one-character strings, except URLs, which are  *)
(* sequences of segments ("http://", "https://", "h", "/").                *)
(***************************************************************************)
EXTENDS Integers, Sequences, FiniteSets, TLC

VARIABLES
    probe,        \* which script runs: "ping", "http" or "tcp"
    platform,     \* platform.system().lower()
    argv,         \* sys.argv (argv[1] is the script name)
    pc,           \* position in main()
    exitStatus,   \* process exit status, NoExit while running
    stderr,       \* lines written to sys.stderr, in order
    stdout,       \* lines written to sys.stdout, in order
    crashed,      \* TRUE when an exception left main() uncaught
    inputError,   \* TRUE when the run ended in one of the argument checks
    \* tcp_port_check.py
    host,         \* host substring after rsplit
    port,         \* int(port_str)
    sock,         \* "none", "open" or "closed"
    connectCalls, \* number of sock.connect_ex() calls
    connectOutcome, \* what connect_ex() did
    \* http_check.py
    url,          \* url after the http:// defaulting
    requests,     \* number of GET requests the opener has started
    redirects,    \* number of redirects the opener has followed
    resp,         \* the last answer to a request
    \* example_ping.py
    cmd,          \* the ping command line
    runCalls,     \* number of subprocess.run() calls
    runOutcome    \* what subprocess.run() did

vars == <<probe, platform, argv, pc, exitStatus, stderr, stdout, crashed,
          inputError, host, port, sock, connectCalls, connectOutcome,
          url, requests, redirects, resp, cmd, runCalls, runOutcome>>

tcpVars  == <<host, port, sock, connectCalls, connectOutcome>>
httpVars == <<url, requests, redirects, resp>>
pingVars == <<cmd, runCalls, runOutcome>>

----------------------------------------------------------------------------
(* Bounds of the model *)

\* longest host prefix (characters "h") of a TCP target
MaxHostLen == 1
\* longest tail (characters ":", "0", "9", "-") of a TCP target
MaxTailLen == 6
\* longest ping hostname
MaxNameLen == 2
\* longest URL argument, in segments
MaxUrlLen == 2
\* redirects the opener follows before it gives up (urllib: max_redirections)
MaxRedirects == 2

----------------------------------------------------------------------------
(* Strings *)

Strs(A, n) == UNION {[1..k -> A] : k \in 0..n}

HostChars == {"h"}
TailChars == {":", "0", "9", "-"}
Digits    == {"0", "9"}

TcpTargets == {h \o t : h \in Strs(HostChars, MaxHostLen), t \in Strs(TailChars, MaxTailLen)}
PingTargets == Strs({"h", "."}, MaxNameLen)
UrlSegments == {"http://", "https://", "h", "/"}
HttpTargets == Strs(UrlSegments, MaxUrlLen)

Targets(p) == CASE p = "tcp"  -> TcpTargets
                [] p = "http" -> HttpTargets
                [] p = "ping" -> PingTargets

NoExit == -1

Contains(s, c) == \E i \in 1..Len(s) : s[i] = c

\* index of the last occurrence of c in s (s contains c)
LastIndex(s, c) == CHOOSE i \in 1..Len(s) :
                      /\ s[i] = c
                      /\ \A j \in (i+1)..Len(s) : s[j] # c

\* target.rsplit(':', 1) of a target that contains ':'
RSplitHost(target) == SubSeq(target, 1, LastIndex(target, ":") - 1)
RSplitPort(target) == SubSeq(target, LastIndex(target, ":") + 1, Len(target))

\* int(s) succeeds: an optional sign and at least one decimal digit
\* (over the characters of TailChars; int() raises ValueError otherwise)
IsInt(s) ==
    LET body == IF s # <<>> /\ s[1] = "-" THEN Tail(s) ELSE s
    IN  /\ body # <<>>
        /\ \A i \in 1..Len(body) : body[i] \in Digits

DigitVal(c) == CASE c = "0" -> 0 [] c = "9" -> 9

RECURSIVE DecVal(_)
DecVal(s) == IF s = <<>> THEN 0
             ELSE 10 * DecVal(SubSeq(s, 1, Len(s) - 1)) + DigitVal(s[Len(s)])

\* int(s) for a string with IsInt(s)
IntVal(s) == IF s[1] = "-" THEN 0 - DecVal(Tail(s)) ELSE DecVal(s)

----------------------------------------------------------------------------
(* What every script shares *)

Line(m, a) == [msg |-> m, args |-> a]

\* what the interpreter writes to stderr when exc leaves main() uncaught
Traceback(exc) ==
    << Line("Traceback (most recent call last):", <<>>),
       Line("  File \"<script>\", line <n>, in <module>", <<>>),
       Line("  File \"<script>\", line <n>, in main", <<>>),
       Line(exc, <<>>) >>

\* the argument check with its bound off by one
NoTargetOffByOne(av) == Len(av) < 1

\* len(sys.argv) < 2
NoTarget(av) == Len(av) < 2

\* sys.argv[i] does not raise IndexError
HasIndex(av, i) == Len(av) >= i + 1

\* print(..., file=sys.stderr) of each line, then sys.exit(status)
Terminate(status, lines, isInputError) ==
    /\ stderr' = stderr \o lines
    /\ exitStatus' = status
    /\ inputError' = isInputError
    /\ pc' = "done"
    /\ UNCHANGED <<stdout, crashed>>

\* an exception no handler catches: the interpreter prints the traceback
\* and the process ends with status 1
Crash(exc) ==
    /\ stderr' = stderr \o Traceback(exc)
    /\ exitStatus' = 1
    /\ crashed' = TRUE
    /\ pc' = "done"
    /\ UNCHANGED <<stdout, inputError>>

ScriptName(p) == CASE p = "tcp"  -> <<"tcp_port_check.py">>
                   [] p = "http" -> <<"http_check.py">>
                   [] p = "ping" -> <<"example_ping.py">>

Init ==
    /\ probe \in {"ping", "http", "tcp"}
    /\ argv \in {<<ScriptName(probe)>>} \cup {<<ScriptName(probe), t>> : t \in Targets(probe)}
    /\ platform = "unread"
    /\ pc = "start"
    /\ exitStatus = NoExit
    /\ stderr = <<>>
    /\ stdout = <<>>
    /\ crashed = FALSE
    /\ inputError = FALSE
    /\ host = <<>>
    /\ port = 0
    /\ sock = "none"
    /\ connectCalls = 0
    /\ connectOutcome = "none"
    /\ url = <<>>
    /\ requests = 0
    /\ redirects = 0
    /\ resp = [kind |-> "none", code |-> 0, location |-> FALSE]
    /\ cmd = <<>>
    /\ runCalls = 0
    /\ runOutcome = [kind |-> "none", returncode |-> 0]

----------------------------------------------------------------------------
(* scripts/tcp_port_check.py *)

\* the port numbers a sockaddr takes; connect_ex() raises OverflowError
\* for any other
MaxPort == 65535

\* what sock.connect_ex((h, p)) can do.  It returns 0 or an errno for
\* whatever the C-level connect() answers -- the 2 s timeout included,
\* which comes back as EAGAIN, not as socket.timeout -- and it raises for
\* what goes wrong before the connect(): the name lookup (gaierror), the
\* host encoding (UnicodeError), the port range (OverflowError, checked
\* after the lookup).  An empty host is INADDR_ANY and needs no lookup.
ConnectOutcomes(h, p) ==
    IF p < 0 \/ p > MaxPort
    THEN {"OverflowError"} \cup (IF h # <<>> THEN {"gaierror"} ELSE {})
    ELSE {"connected", "refused", "timeout"}
         \cup (IF h # <<>> THEN {"gaierror", "UnicodeError"} ELSE {})

Returned == {"connected", "refused", "timeout"}

\* the value connect_ex() returns
ConnectResult(o) == CASE o = "connected" -> 0
                      [] o = "refused"   -> 111
                      [] o = "timeout"   -> 11

\* the except clauses of the connect block
TcpExceptLine(exc, h, p) ==
    CASE exc = "gaierror" -> Line("Error: Could not resolve hostname {host}", <<h>>)
      [] exc = "socket.timeout" -> Line("Connection to {host}:{port} timed out", <<h, p>>)
      [] OTHER -> Line("Error: {e}", <<exc>>)

TcpCheckArgs ==
    /\ pc = "start"
    /\ probe = "tcp"
    /\ IF NoTarget(argv)
       THEN /\ Terminate(1, <<Line("Error: No hostname provided", <<>>)>>, TRUE)
            /\ UNCHANGED <<host, port>>
       ELSE IF ~HasIndex(argv, 1)
       THEN /\ Crash("IndexError: list index out of range")
            /\ UNCHANGED <<host, port>>
       ELSE LET target == argv[2] IN
            IF ~Contains(target, ":")
            THEN /\ Terminate(1, <<Line("Error: Invalid format. Expected hostname:port (e.g., example.com:80)", <<>>)>>, TRUE)
                 /\ UNCHANGED <<host, port>>
            ELSE IF ~IsInt(RSplitPort(target))
            THEN /\ Terminate(1, <<Line("Error: Invalid port number", <<>>)>>, TRUE)
                 /\ UNCHANGED <<host, port>>
            ELSE /\ host' = RSplitHost(target)
                 /\ port' = IntVal(RSplitPort(target))
                 /\ pc' = "socket"
                 /\ UNCHANGED <<exitStatus, stderr, stdout, crashed, inputError>>
    /\ UNCHANGED <<probe, platform, argv, sock, connectCalls, connectOutcome>>
    /\ UNCHANGED <<httpVars, pingVars>>

\* socket.socket(AF_INET, SOCK_STREAM) and settimeout(2), outside any try
TcpSocket ==
    /\ pc = "socket"
    /\ \E created \in BOOLEAN :
         IF created
         THEN /\ sock' = "open"
              /\ pc' = "connect"
              /\ UNCHANGED <<exitStatus, stderr, stdout, crashed, inputError>>
         ELSE /\ Crash("OSError: [Errno 24] Too many open files")
              /\ UNCHANGED sock
    /\ UNCHANGED <<probe, platform, argv, host, port, connectCalls, connectOutcome>>
    /\ UNCHANGED <<httpVars, pingVars>>

TcpConnect ==
    /\ pc = "connect"
    /\ \E o \in ConnectOutcomes(host, port) :
         /\ connectCalls' = connectCalls + 1
         /\ connectOutcome' = o
         /\ IF o \in Returned
            THEN /\ sock' = "closed"
                 /\ IF ConnectResult(o) = 0
                    THEN Terminate(0, <<>>, FALSE)
                    ELSE Terminate(1, <<Line("Port {port} on {host} is not reachable", <<port, host>>)>>, FALSE)
            ELSE /\ UNCHANGED sock
                 /\ Terminate(1, <<TcpExceptLine(o, host, port)>>, FALSE)
    /\ UNCHANGED <<probe, platform, argv, host, port>>
    /\ UNCHANGED <<httpVars, pingVars>>

----------------------------------------------------------------------------
(* scripts/http_check.py *)

\* url.startswith(prefixes), on segments
StartsWith(u, prefixes) == u # <<>> /\ u[1] \in prefixes

\* the http:// defaulting
Normalize(u) == IF ~StartsWith(u, {"http://", "https://"})
                THEN <<"http://">> \o u
                ELSE u

\* a URL no request can be sent for: no host after the scheme, or a
\* second scheme where the host and port should be
Malformed(u) == \/ Len(u) < 2
                \/ u[2] = "/"
                \/ \E i \in 2..Len(u) : u[i] \in {"http://", "https://"}

StatusCodes == 200..599

\* the codes urllib's HTTPRedirectHandler follows when a Location header
\* comes with them
RedirectCodes == {301, 302, 303, 307, 308}

Status(c, l) == [kind |-> "status", code |-> c, location |-> l]
Failure(k)   == [kind |-> k, code |-> 0, location |-> FALSE]

\* what one request of the opener can end in
Answers(u) ==
    IF Malformed(u)
    THEN {Failure("URLError"), Failure("InvalidURL")}
    ELSE {Status(c, FALSE) : c \in StatusCodes}
         \cup {Status(c, TRUE) : c \in RedirectCodes}
         \cup {Failure("URLError"), Failure("TimeoutError")}

\* the opener sends a further request instead of answering the caller
Follows(r, n) == /\ r.kind = "status"
                 /\ r.code \in RedirectCodes
                 /\ r.location
                 /\ n < MaxRedirects

\* urlopen() returns the response: HTTPErrorProcessor passes 2xx only and
\* turns every other status into an HTTPError
Returns(r) == r.kind = "status" /\ 200 <= r.code /\ r.code < 300

\* the test on the returned response's status code
IsSuccess(status_code) == 200 <= status_code /\ status_code < 400

\* the except clauses of the request block
HttpExceptLine(r, u) ==
    CASE r.kind = "status" -> Line("HTTP error: {e.code} {e.reason}", <<r.code, "reason">>)
      [] r.kind = "URLError" -> Line("Connection error: {e.reason}", <<"reason">>)
      [] r.kind = "TimeoutError" -> Line("Request to {url} timed out", <<u>>)
      [] OTHER -> Line("Error: {e}", <<r.kind>>)

HttpCheckArgs ==
    /\ pc = "start"
    /\ probe = "http"
    /\ IF NoTarget(argv)
       THEN /\ Terminate(1, <<Line("Error: No URL provided", <<>>)>>, TRUE)
            /\ UNCHANGED url
       ELSE IF ~HasIndex(argv, 1)
       THEN /\ Crash("IndexError: list index out of range")
            /\ UNCHANGED url
       ELSE /\ url' = Normalize(argv[2])
            /\ pc' = "urlopen"
            /\ UNCHANGED <<exitStatus, stderr, stdout, crashed, inputError>>
    /\ UNCHANGED <<probe, platform, argv, requests, redirects, resp>>
    /\ UNCHANGED <<tcpVars, pingVars>>

\* urllib.request.urlopen(url, timeout=5): the first request
HttpUrlopen ==
    /\ pc = "urlopen"
    /\ \E r \in Answers(url) :
         /\ requests' = requests + 1
         /\ resp' = r
    /\ pc' = "response"
    /\ UNCHANGED <<probe, platform, argv, exitStatus, stderr, stdout, crashed,
                   inputError, url, redirects>>
    /\ UNCHANGED <<tcpVars, pingVars>>

\* still inside urlopen(): the opener follows a redirect with a new GET
HttpRedirect ==
    /\ pc = "response"
    /\ Follows(resp, redirects)
    /\ \E r \in Answers(<<"http://", "h">>) :
         /\ requests' = requests + 1
         /\ redirects' = redirects + 1
         /\ resp' = r
    /\ UNCHANGED <<probe, platform, argv, pc, exitStatus, stderr, stdout,
                   crashed, inputError, url>>
    /\ UNCHANGED <<tcpVars, pingVars>>

\* urlopen() returns or raises, and main() ends
HttpFinish ==
    /\ pc = "response"
    /\ ~Follows(resp, redirects)
    /\ IF Returns(resp)
       THEN IF IsSuccess(resp.code)
            THEN Terminate(0, <<>>, FALSE)
            ELSE Terminate(1, <<Line("HTTP check failed: status code {status_code}", <<resp.code>>)>>, FALSE)
       ELSE Terminate(1, <<HttpExceptLine(resp, url)>>, FALSE)
    /\ UNCHANGED <<probe, platform, argv, url, requests, redirects, resp>>
    /\ UNCHANGED <<tcpVars, pingVars>>

----------------------------------------------------------------------------
(* scripts/example_ping.py *)

Platforms == {"windows", "linux", "darwin"}

\* the ping command line for the platform
PingCmd(pf, hostname) ==
    IF pf = "windows"
    THEN <<"ping", "-n", "1", "-w", "2000", hostname>>
    ELSE <<"ping", "-c", "1", "-W", "2", hostname>>

\* the exit codes of the ping utility
ReturnCodes == 0..2

Exited(rc)  == [kind |-> "exited", returncode |-> rc]
Raised(exc) == [kind |-> exc, returncode |-> 0]

\* what subprocess.run(cmd, capture_output=True, timeout=5) can do
RunOutcomes == {Exited(rc) : rc \in ReturnCodes}
               \cup {Raised("TimeoutExpired"), Raised("FileNotFoundError"),
                     Raised("PermissionError")}

\* the exit status for a child that exited with returncode
PingExitForward(returncode) == returncode

PingExit(returncode) == IF returncode = 0 THEN 0 ELSE 1

\* the except clauses of the run block
PingExceptLine(exc, hostname) ==
    CASE exc = "TimeoutExpired" -> Line("Ping to {hostname} timed out", <<hostname>>)
      [] OTHER -> Line("Error: {e}", <<exc>>)

PingCheckArgs ==
    /\ pc = "start"
    /\ probe = "ping"
    /\ IF NoTarget(argv)
       THEN /\ Terminate(1, <<Line("Error: No hostname provided", <<>>)>>, TRUE)
            /\ UNCHANGED <<platform, cmd>>
       ELSE IF ~HasIndex(argv, 1)
       THEN /\ Crash("IndexError: list index out of range")
            /\ UNCHANGED <<platform, cmd>>
       ELSE \E pf \in Platforms :
            /\ platform' = pf
            /\ cmd' = PingCmd(pf, argv[2])
            /\ pc' = "run"
            /\ UNCHANGED <<exitStatus, stderr, stdout, crashed, inputError>>
    /\ UNCHANGED <<probe, argv, runCalls, runOutcome>>
    /\ UNCHANGED <<tcpVars, httpVars>>

PingRun ==
    /\ pc = "run"
    /\ \E o \in RunOutcomes :
         /\ runCalls' = runCalls + 1
         /\ runOutcome' = o
         /\ IF o.kind = "exited"
            THEN IF o.returncode = 0
                 THEN Terminate(PingExit(o.returncode), <<>>, FALSE)
                 ELSE Terminate(PingExit(o.returncode), <<Line("Ping to {hostname} failed", <<argv[2]>>)>>, FALSE)
            ELSE Terminate(1, <<PingExceptLine(o.kind, argv[2])>>, FALSE)
    /\ UNCHANGED <<probe, platform, argv, cmd>>
    /\ UNCHANGED <<tcpVars, httpVars>>

----------------------------------------------------------------------------

Next ==
    \/ TcpCheckArgs
    \/ TcpSocket
    \/ TcpConnect
    \/ HttpCheckArgs
    \/ HttpUrlopen
    \/ HttpRedirect
    \/ HttpFinish
    \/ PingCheckArgs
    \/ PingRun

Spec == Init /\ [][Next]_vars

----------------------------------------------------------------------------
(* The properties *)

Done == pc = "done"

\* the network operations the run has started
NetOps == connectCalls + requests + runCalls

\* the run ended in an argument check, with that check's one line on stderr
InputErrorLines == {"Error: No hostname provided",
                    "Error: No URL provided",
                    "Error: Invalid format. Expected hostname:port (e.g., example.com:80)",
                    "Error: Invalid port number"}

EndedAsInputError ==
    /\ exitStatus = 1
    /\ inputError
    /\ Len(stderr) = 1
    /\ stderr[1].msg \in InputErrorLines

\* the probe's operation ended in what the script takes for success
ProbeSucceeded ==
    \/ probe = "ping" /\ runOutcome.kind = "exited" /\ runOutcome.returncode = 0
    \/ probe = "http" /\ resp.kind = "status" /\ resp.code \in 200..299
    \/ probe = "tcp"  /\ connectOutcome = "connected"

\* the TCP target's port substring, when it has one that is an integer
HasIntPort == /\ probe = "tcp"
              /\ Len(argv) >= 2
              /\ Contains(argv[2], ":")
              /\ IsInt(RSplitPort(argv[2]))

C2_NoUnhandledException == ~crashed

(* C3: a run that ended with status 0 wrote nothing to stdout or stderr; a  *)
(* run that ended with a non-zero status wrote exactly one line to stderr   *)
(* and nothing to stdout.                                                   *)
C3_OneDiagnosticLine ==
    Done => /\ stdout = <<>>
            /\ exitStatus = 0 => stderr = <<>>
            /\ exitStatus # 0 => Len(stderr) = 1

(* C4: with no target argument no network operation is ever started (no     *)
(* socket, no connect, no request, no ping child), and the run ends with    *)
(* status 1 and the input-error line on stderr.                             *)
C4_MissingTarget ==
    Len(argv) < 2 =>
        /\ sock = "none"
        /\ NetOps = 0
        /\ Done => EndedAsInputError

C4_Witness ==
    /\ Done
    /\ Len(argv) < 2
    /\ probe = "tcp"
    /\ exitStatus = 1
    /\ stderr = <<Line("Error: No hostname provided", <<>>)>>

(* C5: an HTTP run that ended on a status code in [200,400) has exit status *)
(* 0; one that ended on a status code in [400,600) has exit status 1 and    *)
(* the status code in its diagnostic line.                                  *)
C5_HttpStatusBoundary ==
    (Done /\ probe = "http" /\ resp.kind = "status") =>
        /\ resp.code \in 200..399 => exitStatus = 0
        /\ resp.code \in 400..599 =>
              /\ exitStatus = 1
              /\ Len(stderr) = 1
              /\ stderr[1].msg \in {"HTTP error: {e.code} {e.reason}",
                                    "HTTP check failed: status code {status_code}"}
              /\ stderr[1].args[1] = resp.code

\* main() is past the argument checks, at the socket or the connect
PastParser == pc \in {"socket", "connect"}

(* C6: a TCP target whose port substring is an integer outside 1..65535     *)
(* never gets past the argument checks to a socket or a connect, and its    *)
(* run ends as an input error with status 1.                                *)
C6_PortOutOfRange ==
    (HasIntPort /\ IntVal(RSplitPort(argv[2])) \notin 1..MaxPort) =>
        /\ ~PastParser
        /\ sock = "none"
        /\ connectCalls = 0
        /\ Done => EndedAsInputError

\* the run for "h:99999": a socket was made and left open, connect_ex()
\* raised OverflowError, and the line on stderr is the catch-all one
C6_Reached ==
    /\ Done
    /\ probe = "tcp"
    /\ Len(argv) = 2
    /\ argv[2] = <<"h", ":", "9", "9", "9", "9", "9">>
    /\ connectOutcome = "OverflowError"
    /\ sock = "open"
    /\ exitStatus = 1
    /\ ~inputError

(* C7: a TCP run that created the socket has closed it when it ends.        *)
C7_SocketClosed ==
    (Done /\ sock # "none") => sock = "closed"

(* C8: a TCP target with a ':' whose host substring (before the last ':')   *)
(* is empty, or whose port substring is empty or not a decimal integer,     *)
(* never gets past the argument checks to a socket or a connect, and its    *)
(* run ends as an input error with status 1.                                *)
C8_HostAndPortRequired ==
    (/\ probe = "tcp"
     /\ Len(argv) >= 2
     /\ Contains(argv[2], ":")
     /\ \/ RSplitHost(argv[2]) = <<>>
        \/ RSplitPort(argv[2]) = <<>>
        \/ ~IsInt(RSplitPort(argv[2]))) =>
        /\ ~PastParser
        /\ sock = "none"
        /\ connectCalls = 0
        /\ Done => EndedAsInputError

(* C9: a TCP run whose connect ran into the 2-second timeout ends with the  *)
(* timed-out diagnostic, not with the not-reachable one.                    *)
C9_TimeoutClassified ==
    (Done /\ connectOutcome = "timeout") =>
        /\ exitStatus = 1
        /\ Len(stderr) = 1
        /\ stderr[1].msg = "Connection to {host}:{port} timed out"

(* C10: no run ever starts a second network operation, a run whose target   *)
(* parsed has started exactly one when it ends, and the ping command asks   *)
(* for one echo.                                                            *)
C10_ExactlyOneOperation ==
    /\ NetOps <= 1
    /\ (Done /\ ~inputError) => NetOps = 1
    /\ pc = "run" => \/ SubSeq(cmd, 2, 3) = <<"-c", "1">>
                     \/ SubSeq(cmd, 2, 3) = <<"-n", "1">>

\* the run for "http://h" answered with a redirect: a second GET went out
C10_Reached ==
    /\ Done
    /\ probe = "http"
    /\ url = <<"http://", "h">>
    /\ requests = 2
    /\ redirects = 1
    /\ exitStatus = 0

====
